---- MODULE Spec2Model ----
(***************************************************************************)
(* Mirrio: round lifecycle of the social voting game.                      *)
(*                                                                         *)
(* The specifications share the variables of this module:                  *)
(*   SpecTally  the vote tally as a pure function of a list of votes       *)
(*   SpecLocal  the localStorage implementation (src/src/mirrio.jsx)       *)
(*   SpecVote   vote submission (supaApi upsert and app/page.tsx insert)   *)
(*   SpecUnanimous  the edge function on a round with unanimous votes      *)
(*   SpecGroup  renaming a group, its members joining, leaving and voting  *)
(*   SpecEdition  the same beside one invocation of the edge function      *)
(*   SpecDraft  the earlier create-round-auto (src/unnamed/part_002) with  *)
(*              failing store requests and email dispatches                *)
(*   SpecAdmin  the admin statements endpoint (app/api/admin/statements)   *)
(*   Spec       the Supabase store, the create-round-auto edge function    *)
(*              (two overlapping invocations) and the GroupDetail clients  *)
(* Time is counted in hours.                                               *)
(***************************************************************************)
EXTENDS Integers, Sequences, FiniteSets, TLC

\* ---------------------------------------------------------------- bounds
MaxVotes == 3
MaxTime == 48
TimeStep == 24
MaxRounds == 2
MaxResults == 4
MaxProcs == 2
MaxBallots == 3
MaxLocalRounds == 2
MaxLocalTime == 216
LocalTimeStep == 24

\* ------------------------------------------------------ program constants
DAY == 24
COOLDOWN == 48
WEEK == 168

\* ------------------------------------------------------------ identifiers
UserIds == {"u1", "u2", "u3"}
Profiles == {"u1", "u2"}
NULL == "NULL"
ABSTAIN == "abstain"

VARIABLES
    tVotes,      \* SpecTally: the `selected` values of the voters, in submission order
    tOut,        \* SpecTally: the tally result, [impl |-> "none"] before the tally ran
    lNow,        \* SpecLocal: Date.now() of the browser, in hours
    lGroup,      \* SpecLocal: db.groups[id] of the localStorage database
    now,                    \* the clock, in hours
    groups,                 \* table groups: rows [id, name, owner, edition_id]
    group_members,          \* table group_members: rows [group_id, user_id]
    statements,             \* table statements: rows [id, edition_id, deleted]
    rounds,                 \* table rounds, in insert order; a round's id is its index
    round_results,          \* table round_results, in insert order
    votes,                  \* table votes: rows [round_id, voter, target]
    points,                 \* table points, in insert order
    group_used_statements,  \* table group_used_statements: rows [group_id, statement_id]
    tick,                   \* the invocations of create-round-auto: position and locals
    client,                 \* the GroupDetail view of each signed-in user
    pageVotes,   \* SpecVote: table votes of app/page.tsx, in insert order
    pageError,   \* SpecVote: whether the last insert of app/page.tsx returned an error
    draft,       \* SpecDraft: the invocation of the earlier create-round-auto
    adminToken,  \* SpecAdmin: process.env.ADMIN_TOKEN
    adminRows,   \* SpecAdmin: table statements of the admin endpoint, in insert order
    adminOut     \* SpecAdmin: the last response of the admin endpoint

tallyVars == <<tVotes, tOut>>
localVars == <<lNow, lGroup>>
storeVars == <<now, groups, group_members, statements, rounds, round_results, votes,
               points, group_used_statements>>
procVars == <<tick, client>>
draftVars == <<draft>>
adminVars == <<adminToken, adminRows, adminOut>>
pageVars == <<pageVotes, pageError, draftVars, adminVars>>

\* ------------------------------------------------------------------ tally
\* handleSubmit: the UI value "abstain" is sent to the store as a null target.
ToTarget(selected) == IF selected = ABSTAIN THEN NULL ELSE selected

ToTargets(vs) == [i \in DOMAIN vs |-> ToTarget(vs[i])]

\* voteCounts[k] = (voteCounts[k] || 0) + 1 on a JS object: an existing key
\* keeps its place, a new key is appended (insertion order).
Bump(acc, k) ==
    IF \E i \in DOMAIN acc : acc[i].key = k
    THEN [i \in DOMAIN acc |->
            IF acc[i].key = k THEN [key |-> k, count |-> acc[i].count + 1] ELSE acc[i]]
    ELSE Append(acc, [key |-> k, count |-> 1])

\* mutant: the `if (v.target)` test is missing, a null target is counted too
RECURSIVE CountVotesNoTargetTest(_, _)
CountVotesNoTargetTest(vs, acc) ==
    IF vs = <<>> THEN acc
    ELSE CountVotesNoTargetTest(Tail(vs), Bump(acc, Head(vs)))

RECURSIVE CountVotes(_, _)
CountVotes(vs, acc) ==
    IF vs = <<>> THEN acc
    ELSE CountVotes(Tail(vs), IF Head(vs) # NULL THEN Bump(acc, Head(vs)) ELSE acc)

\* Math.max(0, ...Object.values(voteCounts))
MaxCount(acc) ==
    IF acc = <<>> THEN 0
    ELSE CHOOSE m \in {acc[i].count : i \in DOMAIN acc} :
            \A i \in DOMAIN acc : acc[i].count <= m

\* mutant: the filter on the maximum is missing, every counted key is a winner
WinnersOfAnyCount(acc) == acc

\* Object.entries(voteCounts).filter(([, count]) => count === maxVotes)
WinnersOf(acc) ==
    LET hit(e) == e.count = MaxCount(acc)
    IN  SelectSeq(acc, hit)

\* mutant: a tie at the maximum is broken in favour of the first key
PickFirstWinner(winners) == IF Len(winners) >= 1 THEN winners[1].key ELSE NULL

\* const winner = winners.length === 1 ? winners[0] : null
PickWinner(winners) == IF Len(winners) = 1 THEN winners[1].key ELSE NULL

Tally(targets) ==
    LET acc == CountVotes(targets, <<>>)
    IN  [winner |-> PickWinner(WinnersOf(acc)),
         maxVotes |-> MaxCount(acc),
         voteCounts |-> acc]

\* mirrio.jsx closeRound: votes hold the UI value, "abstain" is skipped;
\* every entry at the maximum is a winner.
RECURSIVE LocalCount(_, _)
LocalCount(vs, acc) ==
    IF vs = <<>> THEN acc
    ELSE LocalCount(Tail(vs), IF Head(vs) # ABSTAIN THEN Bump(acc, Head(vs)) ELSE acc)

LocalTally(selected) ==
    LET acc == LocalCount(selected, <<>>)
        w == WinnersOf(acc)
    IN  [winners |-> [i \in DOMAIN w |-> w[i].key],
         maxVotes |-> MaxCount(acc),
         voteCounts |-> acc]

\* the vote counts as a map target -> count
AsMap(acc) == {<<acc[i].key, acc[i].count>> : i \in DOMAIN acc}

\* ------------------------------------------------------------- SpecTally
Selections == UserIds \cup {ABSTAIN}

SeqsUpTo(S, n) == UNION {[1..k -> S] : k \in 0..n}

NoOut == [impl |-> "none"]

TallyInit ==
    /\ tVotes \in SeqsUpTo(Selections, MaxVotes)
    /\ tOut = NoOut

TallyServer ==
    /\ tOut = NoOut
    /\ tOut' = [impl |-> "server", result |-> Tally(ToTargets(tVotes))]
    /\ UNCHANGED <<tVotes, localVars, storeVars, procVars, pageVars>>

TallyLocal ==
    /\ tOut = NoOut
    /\ tOut' = [impl |-> "local", result |-> LocalTally(tVotes)]
    /\ UNCHANGED <<tVotes, localVars, storeVars, procVars, pageVars>>

\* ------------------------------------------------ local database (mirrio.jsx)
\* db.statements of createEmptyDB: statements of two editions; edition "e3" is empty
LocalStatements ==
    {[id |-> "s1", editionId |-> "e1"],
     [id |-> "s2", editionId |-> "e1"],
     [id |-> "s3", editionId |-> "e2"]}

LocalEditions == {"e1", "e2", "e3"}

\* the group as the "Create group" handler stores it; a nextIssueAt of null
\* is written 0 (the code tests it for truthiness only)
LocalNewGroup(owner, editionId) ==
    [ownerEmail |-> owner,
     members |-> {owner},
     rounds |-> <<>>,
     leaderboard |-> [e \in UserIds |-> 0],
     usedStatementIds |-> {},
     nextIssueAt |-> 0,
     editionId |-> editionId]

\* r.votes[meEmail] = selected on a JS object
SetVote(vs, voter, selected) ==
    IF \E i \in DOMAIN vs : vs[i].voter = voter
    THEN [i \in DOMAIN vs |->
            IF vs[i].voter = voter THEN [voter |-> voter, selected |-> selected]
            ELSE vs[i]]
    ELSE Append(vs, [voter |-> voter, selected |-> selected])

\* Object.values(round.votes)
VoteValues(vs) == [i \in DOMAIN vs |-> vs[i].selected]

SeqToSet(s) == {s[i] : i \in DOMAIN s}

\* winners.forEach((e) => { group.leaderboard[e] = (group.leaderboard[e]||0) + 1 })
LocalAward(leaderboard, winners) ==
    [e \in UserIds |->
        IF e \in SeqToSet(winners) THEN leaderboard[e] + 1 ELSE leaderboard[e]]

\* closeRound(db, group, round) on the round at index i, at time t
LocalCloseRound(g, i, t) ==
    IF g.rounds[i].closed THEN g
    ELSE LET res == LocalTally(VoteValues(g.rounds[i].votes))
         IN  [g EXCEPT
                !.rounds[i].closed = TRUE,
                !.rounds[i].winnerEmails = res.winners,
                !.leaderboard = LocalAward(g.leaderboard, res.winners),
                !.nextIssueAt = t + WEEK]

InEdition(g) == {s \in LocalStatements : g.editionId = NULL \/ s.editionId = g.editionId}

\* the usage history after the reset of issueNewStatement (when the pool is empty)
LocalUsedAfterReset(g) ==
    IF {s \in InEdition(g) : s.id \notin g.usedStatementIds} = {}
    THEN {sid \in g.usedStatementIds :
            \E st \in LocalStatements :
                st.id = sid /\ (g.editionId = NULL \/ st.editionId # g.editionId)}
    ELSE g.usedStatementIds

LocalAvailable(g) == {s \in InEdition(g) : s.id \notin LocalUsedAfterReset(g)}

\* issueNewStatement(db, group): the groups it can leave, one per possible pick
LocalIssue(g, t) ==
    IF LocalAvailable(g) = {}
    THEN {[g EXCEPT !.usedStatementIds = LocalUsedAfterReset(g)]}
    ELSE {[g EXCEPT
             !.usedStatementIds = LocalUsedAfterReset(g) \cup {pick.id},
             !.rounds = <<[statementId |-> pick.id,
                           issuedAt |-> t,
                           expiresAt |-> t + DAY,
                           votes |-> <<>>,
                           closed |-> FALSE,
                           winnerEmails |-> <<>>]>> \o g.rounds,
             !.nextIssueAt = 0] : pick \in LocalAvailable(g)}

\* g.rounds.find((r) => !r.closed): index of the first open round, 0 if none
LocalActive(g) ==
    IF \E i \in DOMAIN g.rounds : ~g.rounds[i].closed
    THEN CHOOSE i \in DOMAIN g.rounds :
            /\ ~g.rounds[i].closed
            /\ \A j \in 1..(i - 1) : g.rounds[j].closed
    ELSE 0

\* the auto-issue/close effect, first half: close the expired active round
LocalAutoClose(g, t) ==
    IF LocalActive(g) # 0 /\ t >= g.rounds[LocalActive(g)].expiresAt
    THEN LocalCloseRound(g, LocalActive(g), t)
    ELSE g

\* second half: issue the next statement when it is due
LocalAutoIssue(g, t) ==
    IF LocalActive(g) = 0 /\ g.nextIssueAt # 0 /\ t >= g.nextIssueAt
    THEN LocalIssue(g, t)
    ELSE {g}

LocalInit ==
    /\ lNow = 0
    /\ lGroup \in {LocalNewGroup("u1", e) : e \in LocalEditions}

\* time passes; the effect of the next render closes and issues what is due
LocalTick ==
    /\ lNow + LocalTimeStep <= MaxLocalTime
    /\ lNow' = lNow + LocalTimeStep
    /\ lGroup' \in LocalAutoIssue(LocalAutoClose(lGroup, lNow'), lNow')
    /\ Len(lGroup'.rounds) <= MaxLocalRounds
    /\ UNCHANGED <<tallyVars, storeVars, procVars, pageVars>>

\* auto-join via the invite link
LocalJoin(e) ==
    /\ e \notin lGroup.members
    /\ lGroup' = [lGroup EXCEPT !.members = @ \cup {e}]
    /\ UNCHANGED <<lNow, tallyVars, storeVars, procVars, pageVars>>

\* the "Start first circle" button
LocalStart ==
    /\ LocalActive(lGroup) = 0
    /\ lGroup.nextIssueAt = 0
    /\ Len(lGroup.rounds) < MaxLocalRounds
    /\ lGroup' \in LocalIssue(lGroup, lNow)
    /\ UNCHANGED <<lNow, tallyVars, storeVars, procVars, pageVars>>

\* the group after the "Submit vote" handler of VotePanel
LocalSubmit(g, i, me, selected, t) ==
    LET voted == [g EXCEPT !.rounds[i].votes = SetVote(@, me, selected)]
    IN  IF Len(voted.rounds[i].votes) >= Cardinality(voted.members)
        THEN LocalCloseRound(voted, i, t)
        ELSE voted

LocalVote(me, selected) ==
    /\ me \in lGroup.members
    /\ LocalActive(lGroup) # 0
    /\ ~\E k \in DOMAIN lGroup.rounds[LocalActive(lGroup)].votes :
            lGroup.rounds[LocalActive(lGroup)].votes[k].voter = me
    /\ selected \in (lGroup.members \ {me}) \cup {ABSTAIN}
    /\ lGroup' = LocalSubmit(lGroup, LocalActive(lGroup), me, selected, lNow)
    /\ UNCHANGED <<lNow, tallyVars, storeVars, procVars, pageVars>>

\* ------------------------------------------------ Supabase store (tables)
GroupIds == {"g1"}
TickIds == {"t1", "t2"}

\* .single(): the row when exactly one row matches, no data otherwise
Single(rows) == IF Cardinality(rows) = 1 THEN rows ELSE {}

ResultRows(r) == {i \in DOMAIN round_results : round_results[i].round_id = r}

\* .from('round_results').select('id').eq('round_id', r).single()
ExistingResult(r) == Single(ResultRows(r)) # {}

VotesOf(r) == {v \in votes : v.round_id = r}

RECURSIVE SetToSeq(_)
SetToSeq(S) ==
    IF S = {} THEN <<>>
    ELSE LET x == CHOOSE y \in S : TRUE IN <<x>> \o SetToSeq(S \ {x})

\* the targets of the vote rows of round r as the select returns them
TargetsOf(r) ==
    LET rows == SetToSeq(VotesOf(r))
    IN  [i \in DOMAIN rows |-> rows[i].target]

MembersOf(g) == {m.user_id : m \in {x \in group_members : x.group_id = g}}

RoundsOf(g) == {r \in DOMAIN rounds : rounds[r].group_id = g}

PointRows(u, g) ==
    {i \in DOMAIN points : points[i].user_id = u /\ points[i].group_id = g}

\* .from('points').select('points').eq(user_id).eq(group_id).single()
\* as a sequence: <<>> for no data, <<p>> for the row's points
ExistingPoints(u, g) ==
    IF Cardinality(PointRows(u, g)) = 1
    THEN <<points[CHOOSE i \in PointRows(u, g) : TRUE].points>>
    ELSE <<>>

\* update({ points: existing.points + 1 }) of the matching rows, or the insert
\* of a row with points 1 when the select gave no data
PointsWritten(existing, u, g) ==
    IF existing # <<>>
    THEN [i \in DOMAIN points |->
            IF i \in PointRows(u, g)
            THEN [points[i] EXCEPT !.points = existing[1] + 1]
            ELSE points[i]]
    ELSE Append(points, [user_id |-> u, group_id |-> g, points |-> 1])

\* .from('round_results').insert({round_id, winner, votes_count, closed_at})
ResultInserted(r, winner, maxVotes) ==
    Append(round_results,
           [round_id |-> r, winner |-> winner, votes_count |-> maxVotes, closed_at |-> now])

\* .from('rounds').insert({group_id, statement_id, issued_at, expires_at})
RoundInserted(g, s) ==
    Append(rounds,
           [group_id |-> g, statement_id |-> s, issued_at |-> now, expires_at |-> now + DAY])

\* .from('votes').upsert({round_id, voter, target}): keyed by (round_id, voter)
VoteUpserted(r, u, target) ==
    {v \in votes : ~(v.round_id = r /\ v.voter = u)}
        \cup {[round_id |-> r, voter |-> u, target |-> target]}

UsedIds(g) == {x.statement_id : x \in {y \in group_used_statements : y.group_id = g}}

EditionOf(g) == (CHOOSE x \in groups : x.id = g).edition_id

OwnerOf(g) == (CHOOSE x \in groups : x.id = g).owner

\* the unused statements of every edition
UnusedOfAnyEdition(g) ==
    {s.id : s \in {x \in statements : ~x.deleted}} \ UsedIds(g)

\* the statements of the group's edition without the filter on the used ids
UnusedOrUsed(g) ==
    {s.id : s \in {x \in statements : x.edition_id = EditionOf(g) /\ ~x.deleted}}

\* statements of the group's edition that are not deleted and not used
UnusedStatements(g) ==
    {s.id : s \in {x \in statements : x.edition_id = EditionOf(g) /\ ~x.deleted}}
        \ UsedIds(g)

\* the next_statement_for_group RPC: an unused statement, or null
RpcNextStatement(g) ==
    IF UnusedStatements(g) = {} THEN {NULL} ELSE UnusedStatements(g)

\* ascending sequence of a set of integers
RECURSIVE Sorted(_)
Sorted(S) ==
    IF S = {} THEN <<>>
    ELSE LET m == CHOOSE x \in S : \A y \in S : x <= y IN <<m>> \o Sorted(S \ {m})

\* ------------------------------------------- create-round-auto (the tick)
TickIdle ==
    [pc |-> "idle", step |-> 0, queue |-> <<>>, round |-> 0, group |-> NULL,
     winner |-> NULL, maxVotes |-> 0, existing |-> <<>>, statement |-> NULL,
     queried |-> 0]

\* an invocation slot that is never used
TickOff == [TickIdle EXCEPT !.pc = "off"]

\* the tick at the head of the loop of `step` over the queue q, `at` being
\* the time of the query of STEP 1 (kept while STEP 1 and STEP 2 run);
\* after the last group of step 3 the function returns its response
TickAt(step, q, at) ==
    IF step = 3 /\ q = <<>> THEN TickIdle
    ELSE [TickIdle EXCEPT !.pc = "loop", !.step = step, !.queue = q,
                          !.queried = IF step = 3 THEN 0 ELSE at]

\* the query of STEP 1 missing the rounds that expired within the last day
ExpiredBeforeYesterday == {r \in DOMAIN rounds : rounds[r].expires_at + DAY < now}

\* .from('rounds').select(...).lt('expires_at', now)
ExpiredRounds == {r \in DOMAIN rounds : rounds[r].expires_at < now}

\* .from('rounds').select(...).gt('expires_at', now)
ActiveRounds == {r \in DOMAIN rounds : rounds[r].expires_at > now}

\* STEP 1 starts: the query of the expired rounds
TickStart(t) ==
    /\ tick[t].pc = "idle"
    /\ tick' = [tick EXCEPT ![t] = TickAt(1, Sorted(ExpiredRounds), now)]
    /\ UNCHANGED <<tallyVars, localVars, pageVars, storeVars, client>>

\* the loop of STEP 1 is over: the query of STEP 2
TickQueryActive(t) ==
    /\ tick[t].pc = "loop" /\ tick[t].step = 1 /\ tick[t].queue = <<>>
    /\ tick' = [tick EXCEPT ![t] = TickAt(2, Sorted(ActiveRounds), tick[t].queried)]
    /\ UNCHANGED <<tallyVars, localVars, pageVars, storeVars, client>>

\* the loop of STEP 2 is over: the query of STEP 3
TickQueryGroups(t) ==
    /\ tick[t].pc = "loop" /\ tick[t].step = 2 /\ tick[t].queue = <<>>
    /\ tick' = [tick EXCEPT ![t] = TickAt(3, SetToSeq({x.id : x \in groups}), 0)]
    /\ UNCHANGED <<tallyVars, localVars, pageVars, storeVars, client>>

\* the tick about to insert the result of round r, tallied from its votes
TickClosing(t, r) ==
    LET res == Tally(TargetsOf(r))
    IN  [tick[t] EXCEPT !.pc = "insert_result", !.round = r,
                        !.group = rounds[r].group_id,
                        !.winner = res.winner, !.maxVotes = res.maxVotes]

\* STEP 1, one round: skip it when it has a result, else read and tally its votes
TickCheckExpired(t) ==
    /\ tick[t].pc = "loop" /\ tick[t].step = 1 /\ tick[t].queue # <<>>
    /\ LET r == Head(tick[t].queue)
       IN  tick' = [tick EXCEPT ![t] =
                IF ExistingResult(r) THEN TickAt(1, Tail(tick[t].queue), tick[t].queried)
                ELSE TickClosing(t, r)]
    /\ UNCHANGED <<tallyVars, localVars, pageVars, storeVars, client>>

\* if (memberCount && voteCount && voteCount >= memberCount)
EveryoneVoted(r) ==
    LET memberCount == Cardinality(MembersOf(rounds[r].group_id))
        voteCount == Cardinality(VotesOf(r))
    IN  memberCount # 0 /\ voteCount # 0 /\ voteCount >= memberCount

\* STEP 2, one round: skip it when it has a result or votes are missing
TickCheckActive(t) ==
    /\ tick[t].pc = "loop" /\ tick[t].step = 2 /\ tick[t].queue # <<>>
    /\ LET r == Head(tick[t].queue)
       IN  tick' = [tick EXCEPT ![t] =
                IF ExistingResult(r) \/ ~EveryoneVoted(r)
                THEN TickAt(2, Tail(tick[t].queue), tick[t].queried)
                ELSE TickClosing(t, r)]
    /\ UNCHANGED <<tallyVars, localVars, pageVars, storeVars, client>>

\* the insert into round_results of STEP 1 and STEP 2
TickInsertResult(t) ==
    /\ tick[t].pc = "insert_result"
    /\ Len(round_results) < MaxResults
    /\ round_results' = ResultInserted(tick[t].round, tick[t].winner, tick[t].maxVotes)
    /\ tick' = [tick EXCEPT ![t] =
            IF tick[t].winner # NULL THEN [tick[t] EXCEPT !.pc = "select_points"]
            ELSE TickAt(tick[t].step, Tail(tick[t].queue), tick[t].queried)]
    /\ UNCHANGED <<tallyVars, localVars, pageVars, now, groups, group_members, statements,
                   rounds, votes, points,
                   group_used_statements, client>>

\* the select of the winner's points row
TickSelectPoints(t) ==
    /\ tick[t].pc = "select_points"
    /\ tick' = [tick EXCEPT ![t].pc = "write_points",
                            ![t].existing = ExistingPoints(tick[t].winner, tick[t].group)]
    /\ UNCHANGED <<tallyVars, localVars, pageVars, storeVars, client>>

\* the update or insert of the winner's points row
TickWritePoints(t) ==
    /\ tick[t].pc = "write_points"
    /\ points' = PointsWritten(tick[t].existing, tick[t].winner, tick[t].group)
    /\ tick' = [tick EXCEPT ![t] = TickAt(tick[t].step, Tail(tick[t].queue), tick[t].queried)]
    /\ UNCHANGED <<tallyVars, localVars, pageVars, now, groups, group_members, statements,
                   rounds, round_results, votes,
                   group_used_statements, client>>

\* rounds of g joined with round_results, newest first, limit 1: the rounds
\* the query can return (several when issued_at ties)
LastClosedRounds(g) ==
    LET closed == {r \in RoundsOf(g) : ResultRows(r) # {}}
    IN  {r \in closed : \A r2 \in closed : rounds[r2].issued_at <= rounds[r].issued_at}

\* hoursSinceClose < 48 for lastRound.round_results[0] being the row i
CoolingDown(i) == now - round_results[i].closed_at < COOLDOWN

\* STEP 3, one group: skip it when it has an active round, when the last
\* closed round was closed less than 48h ago or when no statement is unused
TickCheckGroup(t) ==
    /\ tick[t].pc = "loop" /\ tick[t].step = 3 /\ tick[t].queue # <<>>
    /\ LET g == Head(tick[t].queue)
           skip == TickAt(3, Tail(tick[t].queue), 0)
       IN  IF RoundsOf(g) \cap ActiveRounds # {}
           THEN tick' = [tick EXCEPT ![t] = skip]
           ELSE \/ /\ \E r \in LastClosedRounds(g) : \E i \in ResultRows(r) : CoolingDown(i)
                   /\ tick' = [tick EXCEPT ![t] = skip]
                \/ /\ \/ LastClosedRounds(g) = {}
                      \/ \E r \in LastClosedRounds(g) : \E i \in ResultRows(r) : ~CoolingDown(i)
                   /\ IF UnusedStatements(g) = {}
                      THEN tick' = [tick EXCEPT ![t] = skip]
                      ELSE \E s \in UnusedStatements(g) :
                              tick' = [tick EXCEPT ![t].pc = "insert_round",
                                                   ![t].group = g, ![t].statement = s,
                                                   ![t].queried = 0]
    /\ UNCHANGED <<tallyVars, localVars, pageVars, storeVars, client>>

\* the insert of the new round
TickInsertRound(t) ==
    /\ tick[t].pc = "insert_round"
    /\ Len(rounds) < MaxRounds
    /\ rounds' = RoundInserted(tick[t].group, tick[t].statement)
    /\ tick' = [tick EXCEPT ![t].pc = "mark_used"]
    /\ UNCHANGED <<tallyVars, localVars, pageVars, now, groups, group_members, statements,
                   round_results, votes, points,
                   group_used_statements, client>>

\* the insert into group_used_statements
TickMarkUsed(t) ==
    /\ tick[t].pc = "mark_used"
    /\ group_used_statements' = group_used_statements \cup
            {[group_id |-> tick[t].group, statement_id |-> tick[t].statement]}
    /\ tick' = [tick EXCEPT ![t] = TickAt(3, Tail(tick[t].queue), 0)]
    /\ UNCHANGED <<tallyVars, localVars, pageVars, now, groups, group_members, statements,
                   rounds, round_results, votes,
                   points, client>>

\* ------------------------------------- GroupDetail (client of the supaApi)
ClientNew ==
    [pc |-> "idle", group |-> NULL, members |-> {}, activeRound |-> 0,
     round |-> 0, winner |-> NULL, maxVotes |-> 0, existing |-> <<>>, statement |-> NULL]

\* a user who never opens the group page
ClientAway == [ClientNew EXCEPT !.pc = "away"]

\* getActiveRound: of the rounds of g that expire later, newest first, the
\* first one without a single result row; 0 for null
GetActiveRound(g) ==
    LET open == {r \in RoundsOf(g) \cap ActiveRounds : ~ExistingResult(r)}
    IN  IF open = {} THEN {0}
        ELSE {r \in open : \A r2 \in open : rounds[r2].issued_at <= rounds[r].issued_at}

\* now > expires || activeRound.votes?.length >= group.group_members?.length
ShouldClose(r, snapVotes, snapMembers) ==
    \/ now > rounds[r].expires_at
    \/ Cardinality(snapVotes) >= Cardinality(snapMembers)

\* the state of GroupDetail after loadGroupData read the members ms and the
\* active round r with the votes vs, and the checkAndCloseRound effect ran on
\* this snapshot
Loaded(g, r, vs, ms) ==
    LET snapVotes == {v \in vs : v.round_id = r}
        rows == SetToSeq(snapVotes)
        res == Tally([i \in DOMAIN rows |-> rows[i].target])
        snap == [ClientNew EXCEPT !.group = g, !.members = ms, !.activeRound = r]
    IN  IF r # 0 /\ ShouldClose(r, snapVotes, ms)
        THEN [snap EXCEPT !.pc = "insert_result", !.round = r,
                          !.winner = res.winner, !.maxVotes = res.maxVotes]
        ELSE snap

\* loadGroupData of the view of u on the store as the step leaves it
\* (setRefresh at the end of a handler runs it)
Reload(u, g) ==
    \E r \in GetActiveRound(g)' :
        client' = [client EXCEPT ![u] = Loaded(g, r, votes', MembersOf(g)')]

\* the user opens or refreshes the group page
ClientLoad(u, g) ==
    /\ client[u].pc = "idle"
    /\ u \in MembersOf(g)
    /\ UNCHANGED <<tallyVars, localVars, pageVars, storeVars, tick>>
    /\ Reload(u, g)

\* supaApi closeRound: the insert into round_results; without a winner the
\* call is over and checkAndCloseRound refreshes the view
ClientInsertResult(u) ==
    /\ client[u].pc = "insert_result"
    /\ Len(round_results) < MaxResults
    /\ round_results' = ResultInserted(client[u].round, client[u].winner, client[u].maxVotes)
    /\ UNCHANGED <<tallyVars, localVars, pageVars, now, groups, group_members, statements,
                   rounds, votes, points, group_used_statements, tick>>
    /\ IF client[u].winner # NULL
       THEN client' = [client EXCEPT ![u].pc = "select_points"]
       ELSE \E g \in GroupIds : g = client[u].group /\ Reload(u, g)

\* closeRound reads the round's group, incrementPoints selects the points row
ClientSelectPoints(u) ==
    /\ client[u].pc = "select_points"
    /\ client' = [client EXCEPT
            ![u].pc = "write_points",
            ![u].existing = ExistingPoints(client[u].winner, rounds[client[u].round].group_id)]
    /\ UNCHANGED <<tallyVars, localVars, pageVars, storeVars, tick>>

\* incrementPoints: the update or the insert; checkAndCloseRound then
\* refreshes the view
ClientWritePoints(u) ==
    /\ client[u].pc = "write_points"
    /\ points' = PointsWritten(client[u].existing, client[u].winner,
                               rounds[client[u].round].group_id)
    /\ UNCHANGED <<tallyVars, localVars, pageVars, now, groups, group_members, statements,
                   rounds, round_results, votes, group_used_statements, tick>>
    /\ \E g \in GroupIds : g = client[u].group /\ Reload(u, g)

\* handleStartNewRound, shown to the owner while the snapshot has no active
\* round: the RPC picks the statement; without one the handler alerts and returns
ClientStart(u) ==
    /\ client[u].pc = "idle"
    /\ client[u].group # NULL
    /\ client[u].activeRound = 0
    /\ OwnerOf(client[u].group) = u
    /\ \E s \in RpcNextStatement(client[u].group) :
        client' = [client EXCEPT ![u] =
            IF s = NULL THEN client[u]
            ELSE [client[u] EXCEPT !.pc = "insert_round", !.statement = s]]
    /\ UNCHANGED <<tallyVars, localVars, pageVars, storeVars, tick>>

\* supaApi createRound
ClientInsertRound(u) ==
    /\ client[u].pc = "insert_round"
    /\ Len(rounds) < MaxRounds
    /\ rounds' = RoundInserted(client[u].group, client[u].statement)
    /\ client' = [client EXCEPT ![u].pc = "mark_used"]
    /\ UNCHANGED <<tallyVars, localVars, pageVars, now, groups, group_members, statements,
                   round_results, votes, points, group_used_statements, tick>>

\* supaApi markStatementUsed, then handleStartNewRound refreshes the view
ClientMarkUsed(u) ==
    /\ client[u].pc = "mark_used"
    /\ group_used_statements' = group_used_statements \cup
            {[group_id |-> client[u].group, statement_id |-> client[u].statement]}
    /\ UNCHANGED <<tallyVars, localVars, pageVars, now, groups, group_members, statements,
                   rounds, round_results, votes, points, tick>>
    /\ \E g \in GroupIds : g = client[u].group /\ Reload(u, g)

\* VotePanel.handleSubmit: supaApi submitVote on the round of the snapshot,
\* then onVoted refreshes the view; the panel is shown while the round has no
\* vote of the user
ClientVote(u, selected) ==
    /\ client[u].pc = "idle"
    /\ client[u].activeRound # 0
    /\ ~\E v \in VotesOf(client[u].activeRound) : v.voter = u
    /\ selected \in (client[u].members \ {u}) \cup {ABSTAIN}
    /\ votes' = VoteUpserted(client[u].activeRound, u, ToTarget(selected))
    /\ UNCHANGED <<tallyVars, localVars, pageVars, now, groups, group_members, statements,
                   rounds, round_results, points, group_used_statements, tick>>
    /\ \E g \in GroupIds : g = client[u].group /\ Reload(u, g)

\* joinGroupByInvite: the add_group_member RPC
Join(u, g) ==
    /\ u \in Profiles
    /\ u \notin MembersOf(g)
    /\ group_members' = group_members \cup {[group_id |-> g, user_id |-> u]}
    /\ UNCHANGED <<tallyVars, localVars, pageVars, now, groups, statements, rounds,
                   round_results, votes, points,
                   group_used_statements, tick, client>>

\* time passes
Advance ==
    /\ now + TimeStep <= MaxTime
    /\ now' = now + TimeStep
    /\ UNCHANGED <<tallyVars, localVars, pageVars, groups, group_members, statements,
                   rounds, round_results, votes, points,
                   group_used_statements, tick, client>>

\* the sets of at most MaxProcs processes that run: the other invocation
\* slots of the edge function stay unused, the other users never open the page
Scenarios ==
    {P \in SUBSET (TickIds \cup Profiles) : Cardinality(P) \in 1..MaxProcs}

\* the editions a group is created with: e1 has two statements, e3 has none
StoreEditions == {"e1", "e3"}

\* one group of the owner u1 with the edition e; u2 has an account and the
\* invite link
StoreWith(e) ==
    /\ now = 0
    /\ groups = {[id |-> "g1", name |-> "n1", owner |-> "u1", edition_id |-> e]}
    /\ group_members = {[group_id |-> "g1", user_id |-> "u1"]}
    /\ statements = {[id |-> "s1", edition_id |-> "e1", deleted |-> FALSE],
                     [id |-> "s2", edition_id |-> "e1", deleted |-> FALSE]}
    /\ rounds = <<>>
    /\ round_results = <<>>
    /\ votes = {}
    /\ points = <<>>
    /\ group_used_statements = {}

StoreTables == StoreWith("e1")

StoreInit ==
    /\ \E e \in StoreEditions : StoreWith(e)
    /\ \E P \in Scenarios :
          /\ tick = [t \in TickIds |-> IF t \in P THEN TickIdle ELSE TickOff]
          /\ client = [u \in Profiles |-> IF u \in P THEN ClientNew ELSE ClientAway]

\* ------------------------------------------- vote submission (SpecVote)
\* the payload of the "Submit vote" button of app/page.tsx
PagePayload(voter, selected) ==
    [voter_id |-> voter,
     target_user_id |-> IF selected = ABSTAIN THEN NULL ELSE selected,
     abstain |-> (selected = ABSTAIN)]

PageRowsOf(voter) == {i \in DOMAIN pageVotes : pageVotes[i].voter_id = voter}

\* "Submit vote" of app/page.tsx on one group statement: a plain insert. The
\* schema is not part of the sources: with a unique key on the voter of a
\* group statement the second insert of a voter returns an error, which the
\* handler alerts; without one it adds a row.
PageSubmit(voter, selected) ==
    /\ Len(pageVotes) < MaxBallots
    /\ \/ /\ pageVotes' = Append(pageVotes, PagePayload(voter, selected))
          /\ pageError' = FALSE
       \/ /\ PageRowsOf(voter) # {}
          /\ pageVotes' = pageVotes
          /\ pageError' = TRUE
    /\ UNCHANGED <<tallyVars, localVars, storeVars, procVars, draftVars, adminVars>>

\* supaApi submitVote called by a member on the round r
SubmitVote(u, r, target) ==
    /\ votes' = VoteUpserted(r, u, target)
    /\ UNCHANGED <<tallyVars, localVars, pageVars, now, groups, group_members, statements,
                   rounds, round_results, points, group_used_statements, tick, client>>

\* no response yet
NoResponse == [status |-> 0]

\* the earlier create-round-auto, not invoked
DraftIdle ==
    [pc |-> "idle", queue |-> <<>>, snap |-> {}, group |-> NULL, statement |-> NULL,
     expired |-> 0, roundsCreated |-> 0, resultsBefore |-> 0, roundsBefore |-> 0,
     response |-> NoResponse]

\* the admin endpoint before any request; the token is not configured
UNSET == "undefined"
AdminIdle == adminToken = UNSET /\ adminRows = <<>> /\ adminOut = NoResponse

BallotIdle ==
    /\ pageVotes = <<>> /\ pageError = FALSE
    /\ draft = DraftIdle

PageIdle ==
    /\ BallotIdle
    /\ AdminIdle

\* the store while the tally or the localStorage version is looked at alone
StoreIdle ==
    /\ StoreTables
    /\ tick = [t \in TickIds |-> TickOff]
    /\ client = [u \in Profiles |-> ClientAway]

\* a group of three members with one open round; nobody has voted
VoteInit ==
    /\ now = 0
    /\ groups = {[id |-> "g1", name |-> "n1", owner |-> "u1", edition_id |-> "e1"]}
    /\ group_members = {[group_id |-> "g1", user_id |-> u] : u \in UserIds}
    /\ statements = {[id |-> "s1", edition_id |-> "e1", deleted |-> FALSE]}
    /\ rounds = <<[group_id |-> "g1", statement_id |-> "s1", issued_at |-> 0,
                   expires_at |-> DAY]>>
    /\ round_results = <<>>
    /\ votes = {}
    /\ points = <<>>
    /\ group_used_statements = {[group_id |-> "g1", statement_id |-> "s1"]}
    /\ tick = [t \in TickIds |-> TickOff]
    /\ client = [u \in Profiles |-> ClientAway]
    /\ PageIdle

VoteNext ==
    \/ \E u \in UserIds, selected \in Selections : PageSubmit(u, selected)
    \/ \E u \in UserIds, selected \in Selections : SubmitVote(u, 1, ToTarget(selected))

vars == <<tVotes, tOut, lNow, lGroup, now, groups, group_members, statements, rounds,
          round_results, votes, points, group_used_statements, tick, client,
          pageVotes, pageError, draft, adminToken, adminRows, adminOut>>

TallyIdle == tVotes = <<>> /\ tOut = NoOut
LocalIdle == lNow = 0 /\ lGroup = LocalNewGroup("u1", "e3")

TallyNext == TallyServer \/ TallyLocal

InitTally == TallyInit /\ LocalIdle /\ StoreIdle /\ PageIdle

SpecTally == InitTally /\ [][TallyNext]_vars

LocalNext ==
    \/ LocalTick
    \/ \E e \in UserIds : LocalJoin(e)
    \/ LocalStart
    \/ \E me \in UserIds, selected \in Selections : LocalVote(me, selected)

InitLocal == LocalInit /\ TallyIdle /\ StoreIdle /\ PageIdle

SpecLocal == InitLocal /\ [][LocalNext]_vars

Init == StoreInit /\ TallyIdle /\ LocalIdle /\ PageIdle

Next ==
    \/ Advance
    \/ \E u \in Profiles, g \in GroupIds : Join(u, g)
    \/ \E t \in TickIds :
         \/ TickStart(t)
         \/ TickCheckExpired(t)
         \/ TickQueryActive(t)
         \/ TickCheckActive(t)
         \/ TickQueryGroups(t)
         \/ TickCheckGroup(t)
         \/ TickInsertResult(t)
         \/ TickSelectPoints(t)
         \/ TickWritePoints(t)
         \/ TickInsertRound(t)
         \/ TickMarkUsed(t)
    \/ \E u \in Profiles :
         \/ \E g \in GroupIds : ClientLoad(u, g)
         \/ \E selected \in Selections : ClientVote(u, selected)
         \/ ClientInsertResult(u)
         \/ ClientSelectPoints(u)
         \/ ClientWritePoints(u)
         \/ ClientStart(u)
         \/ ClientInsertRound(u)
         \/ ClientMarkUsed(u)

Spec == Init /\ [][Next]_vars

InitVote == VoteInit /\ TallyIdle /\ LocalIdle

SpecVote == InitVote /\ [][VoteNext]_vars

\* ------------------------------------- a unanimous round (SpecUnanimous)
\* a group of three members with one open round in which every member has
\* voted for the same target x (votes as submitVote stores them)
UnanimousInit ==
    /\ now = 0
    /\ groups = {[id |-> "g1", name |-> "n1", owner |-> "u1", edition_id |-> "e1"]}
    /\ group_members = {[group_id |-> "g1", user_id |-> u] : u \in UserIds}
    /\ statements = {[id |-> "s1", edition_id |-> "e1", deleted |-> FALSE],
                     [id |-> "s2", edition_id |-> "e1", deleted |-> FALSE]}
    /\ rounds = <<[group_id |-> "g1", statement_id |-> "s1", issued_at |-> 0,
                   expires_at |-> DAY]>>
    /\ round_results = <<>>
    /\ \E x \in UserIds :
          votes = {[round_id |-> 1, voter |-> u, target |-> x] : u \in UserIds}
    /\ points = <<>>
    /\ group_used_statements = {[group_id |-> "g1", statement_id |-> "s1"]}
    /\ tick = [t \in TickIds |-> TickIdle]
    /\ client = [u \in Profiles |-> ClientAway]

InitUnanimous == UnanimousInit /\ TallyIdle /\ LocalIdle /\ PageIdle

\* the invocations of the edge function and the clock
TickNext ==
    \/ Advance
    \/ \E t \in TickIds :
         \/ TickStart(t)
         \/ TickCheckExpired(t)
         \/ TickQueryActive(t)
         \/ TickCheckActive(t)
         \/ TickQueryGroups(t)
         \/ TickCheckGroup(t)
         \/ TickInsertResult(t)
         \/ TickSelectPoints(t)
         \/ TickWritePoints(t)
         \/ TickInsertRound(t)
         \/ TickMarkUsed(t)

SpecUnanimous == InitUnanimous /\ [][TickNext]_vars

\* ------------------------------------- group management (SpecGroup)
GroupNames == {"n1", "n2"}

\* an update that also sends an edition
GroupRenamedWithEdition(g, newName) ==
    {IF x.id = g THEN [x EXCEPT !.name = newName, !.edition_id = "e3"] ELSE x : x \in groups}

\* .from("groups").update({ name }).eq("id", groupId)
GroupRenamed(g, newName) ==
    {IF x.id = g THEN [x EXCEPT !.name = newName] ELSE x : x \in groups}

\* supaApi renameGroup
RenameGroup(g, newName) ==
    /\ groups' = GroupRenamed(g, newName)
    /\ UNCHANGED <<tallyVars, localVars, pageVars, now, group_members, statements,
                   rounds, round_results, votes, points, group_used_statements,
                   tick, client>>

\* supaApi addGroupMember: the add_group_member RPC, a duplicate is ignored
AddGroupMember(g, u) ==
    /\ group_members' = group_members \cup {[group_id |-> g, user_id |-> u]}
    /\ UNCHANGED <<tallyVars, localVars, pageVars, now, groups, statements,
                   rounds, round_results, votes, points, group_used_statements,
                   tick, client>>

\* supaApi removeGroupMember (leaveGroup removes the caller)
RemoveGroupMember(g, u) ==
    /\ group_members' = group_members \ {[group_id |-> g, user_id |-> u]}
    /\ UNCHANGED <<tallyVars, localVars, pageVars, now, groups, statements,
                   rounds, round_results, votes, points, group_used_statements,
                   tick, client>>

\* a group of the members u1 and u2 with one open round; u3 has an account
\* and is not a member; nobody has voted
GroupStore ==
    /\ now = 0
    /\ groups = {[id |-> "g1", name |-> "n1", owner |-> "u1", edition_id |-> "e1"]}
    /\ group_members = {[group_id |-> "g1", user_id |-> u] : u \in Profiles}
    /\ statements = {[id |-> "s1", edition_id |-> "e1", deleted |-> FALSE],
                     [id |-> "s2", edition_id |-> "e1", deleted |-> FALSE]}
    /\ rounds = <<[group_id |-> "g1", statement_id |-> "s1", issued_at |-> 0,
                   expires_at |-> DAY]>>
    /\ round_results = <<>>
    /\ votes = {}
    /\ points = <<>>
    /\ group_used_statements = {[group_id |-> "g1", statement_id |-> "s1"]}

GroupInit ==
    /\ GroupStore
    /\ tick = [t \in TickIds |-> TickOff]
    /\ client = [u \in Profiles |-> ClientAway]

InitGroup == GroupInit /\ TallyIdle /\ LocalIdle /\ PageIdle

\* a member of the group calls submitVote with the target x
MemberVote(g, u, x) ==
    /\ u \in MembersOf(g)
    /\ SubmitVote(u, 1, x)

\* the members rename the group, join, leave and vote; submitVote takes
\* the target the caller passes
GroupNext ==
    \E g \in GroupIds :
        \/ \E n \in GroupNames : RenameGroup(g, n)
        \/ \E u \in UserIds : AddGroupMember(g, u)
        \/ \E u \in UserIds : RemoveGroupMember(g, u)
        \/ \E u \in UserIds, x \in UserIds \cup {NULL} : MemberVote(g, u, x)


SpecGroup == InitGroup /\ [][GroupNext]_vars

\* ------------------------------------ a group's edition (SpecEdition)
\* the group of GroupStore while one cron job invokes the edge function
EditionInit ==
    /\ GroupStore
    /\ tick = [t \in TickIds |-> IF t = "t1" THEN TickIdle ELSE TickOff]
    /\ client = [u \in Profiles |-> ClientAway]

InitEdition == EditionInit /\ TallyIdle /\ LocalIdle /\ PageIdle

\* the owner renames the group, u3 joins and leaves, the members vote for
\* u1 or abstain, and the edge function closes and opens the rounds
EditionNext ==
    \/ \E g \in GroupIds, n \in GroupNames : RenameGroup(g, n)
    \/ \E g \in GroupIds : AddGroupMember(g, "u3")
    \/ \E g \in GroupIds : RemoveGroupMember(g, "u3")
    \/ \E g \in GroupIds, u \in UserIds, x \in {"u1", NULL} : MemberVote(g, u, x)
    \/ TickNext

SpecEdition == InitEdition /\ [][EditionNext]_vars

\* ------------------- the earlier create-round-auto (part_002, SpecDraft)
\* what a request to the store returns, and what functions.invoke does
StoreOutcomes == {"ok", "error"}
EmailOutcomes == {"sent", "error", "exception"}

draftFrame == <<tallyVars, localVars, procVars, pageVotes, pageError, adminVars>>

\* .lt('expires_at', now).is('round_results.closed_at', null) on a select
\* that embeds only votes: the rounds the request can return are the
\* expired rounds without a result, every expired round (the filter names
\* a relation that is not selected), or none (error, data is null)
DraftExpiredRounds ==
    {{r \in ExpiredRounds : ResultRows(r) = {}}, ExpiredRounds, {}}

\* the tally of the votes that came embedded with the round r
DraftTally(r) ==
    LET rows == SetToSeq({v \in draft.snap : v.round_id = r})
    IN  Tally([i \in DOMAIN rows |-> rows[i].target])

\* the outer catch: the response with status 500
DraftFailed == [DraftIdle EXCEPT !.response = [status |-> 500]]

\* await supabase.functions.invoke(...) outside any try block of the loop
DraftAfterEmail(mail, next) == IF mail = "exception" THEN DraftFailed ELSE next

\* the function is invoked: the query of the expired rounds
DraftStart ==
    /\ draft.pc = "idle"
    /\ \E S \in DraftExpiredRounds :
          draft' = [DraftIdle EXCEPT !.pc = "close", !.queue = Sorted(S),
                                     !.expired = Cardinality(S), !.snap = votes,
                                     !.resultsBefore = Len(round_results),
                                     !.roundsBefore = Len(rounds)]
    /\ UNCHANGED <<draftFrame, storeVars>>

\* one expired round: tally and insert into round_results
DraftCloseRound ==
    /\ draft.pc = "close" /\ draft.queue # <<>>
    /\ LET r == Head(draft.queue)
           res == DraftTally(r)
       IN  \E out \in StoreOutcomes :
             \/ /\ out = "ok"
                /\ Len(round_results) < MaxResults
                /\ round_results' = ResultInserted(r, res.winner, res.maxVotes)
                /\ draft' = [draft EXCEPT !.pc = "result_email"]
             \/ /\ out = "error"
                /\ round_results' = round_results
                /\ draft' = [draft EXCEPT !.queue = Tail(draft.queue)]
    /\ UNCHANGED <<draftFrame, now, groups, group_members, statements, rounds, votes,
                   points, group_used_statements>>

\* the invoke of send-result-email after the insert
DraftResultEmail ==
    /\ draft.pc = "result_email"
    /\ \E mail \in EmailOutcomes :
          draft' = DraftAfterEmail(mail,
                      [draft EXCEPT !.pc = "close", !.queue = Tail(draft.queue)])
    /\ UNCHANGED <<draftFrame, storeVars>>

\* the loop over the expired rounds is over: the query of the groups
DraftQueryGroups ==
    /\ draft.pc = "close" /\ draft.queue = <<>>
    /\ draft' = [draft EXCEPT !.pc = "open", !.queue = SetToSeq({x.id : x \in groups})]
    /\ UNCHANGED <<draftFrame, storeVars>>

\* the newest round of g by issued_at (limit 1, single)
DraftLastRounds(g) ==
    {r \in RoundsOf(g) : \A r2 \in RoundsOf(g) : rounds[r2].issued_at <= rounds[r].issued_at}

\* one group: skip it when it has an active round, when its newest round
\* was issued less than 48h ago or when the RPC returns no statement
DraftCheckGroup ==
    /\ draft.pc = "open" /\ draft.queue # <<>>
    /\ LET g == Head(draft.queue)
           skip == [draft EXCEPT !.queue = Tail(draft.queue)]
       IN  IF RoundsOf(g) \cap ActiveRounds # {}
           THEN draft' = skip
           ELSE IF \E r \in DraftLastRounds(g) : now - rounds[r].issued_at < COOLDOWN
           THEN draft' = skip
           ELSE \E s \in RpcNextStatement(g) :
                   draft' = IF s = NULL THEN skip
                            ELSE [draft EXCEPT !.pc = "insert_round", !.group = g,
                                               !.statement = s]
    /\ UNCHANGED <<draftFrame, storeVars>>

\* the insert of the new round
DraftInsertRound ==
    /\ draft.pc = "insert_round"
    /\ \E out \in StoreOutcomes :
          \/ /\ out = "ok"
             /\ Len(rounds) < MaxRounds
             /\ rounds' = RoundInserted(draft.group, draft.statement)
             /\ draft' = [draft EXCEPT !.pc = "mark_used"]
          \/ /\ out = "error"
             /\ rounds' = rounds
             /\ draft' = [draft EXCEPT !.pc = "open", !.queue = Tail(draft.queue)]
    /\ UNCHANGED <<draftFrame, now, groups, group_members, statements, round_results,
                   votes, points, group_used_statements>>

\* the insert into group_used_statements; its result is not read
DraftMarkUsed ==
    /\ draft.pc = "mark_used"
    /\ \E out \in StoreOutcomes :
          group_used_statements' =
              IF out = "ok"
              THEN group_used_statements \cup
                       {[group_id |-> draft.group, statement_id |-> draft.statement]}
              ELSE group_used_statements
    /\ draft' = [draft EXCEPT !.pc = "round_email"]
    /\ UNCHANGED <<draftFrame, now, groups, group_members, statements, rounds,
                   round_results, votes, points>>

\* the invoke of send-round-email, then roundsCreated++
DraftRoundEmail ==
    /\ draft.pc = "round_email"
    /\ \E mail \in EmailOutcomes :
          draft' = DraftAfterEmail(mail,
                      [draft EXCEPT !.pc = "open", !.queue = Tail(draft.queue),
                                    !.roundsCreated = draft.roundsCreated + 1])
    /\ UNCHANGED <<draftFrame, storeVars>>

\* the response: roundsClosed is the length of the list of expired rounds
DraftRespond ==
    /\ draft.pc = "open" /\ draft.queue = <<>>
    /\ draft' = [draft EXCEPT !.pc = "idle",
                              !.response = [status |-> 200, success |-> TRUE,
                                            roundsClosed |-> draft.expired,
                                            roundsCreated |-> draft.roundsCreated]]
    /\ UNCHANGED <<draftFrame, storeVars>>

\* time passes while the function is invoked by the cron job
DraftAdvance ==
    /\ now + TimeStep <= MaxTime
    /\ now' = now + TimeStep
    /\ UNCHANGED <<draftFrame, draft, groups, group_members, statements, rounds,
                   round_results, votes, points, group_used_statements>>

\* a group of the members u1 and u2 with one open round, or with two (two
\* openers ran at hour 0); u1 has voted for u2 in round 1
DraftInit ==
    /\ now = 0
    /\ groups = {[id |-> "g1", name |-> "n1", owner |-> "u1", edition_id |-> "e1"]}
    /\ group_members = {[group_id |-> "g1", user_id |-> u] : u \in Profiles}
    /\ statements = {[id |-> "s1", edition_id |-> "e1", deleted |-> FALSE],
                     [id |-> "s2", edition_id |-> "e1", deleted |-> FALSE]}
    /\ \E n \in 1..MaxRounds :
          /\ rounds = [i \in 1..n |->
                         [group_id |-> "g1", statement_id |-> IF i = 1 THEN "s1" ELSE "s2",
                          issued_at |-> 0, expires_at |-> DAY]]
          /\ group_used_statements =
                {[group_id |-> "g1", statement_id |-> rounds[i].statement_id] : i \in 1..n}
    /\ round_results = <<>>
    /\ votes = {[round_id |-> 1, voter |-> "u1", target |-> "u2"]}
    /\ points = <<>>
    /\ tick = [t \in TickIds |-> TickOff]
    /\ client = [u \in Profiles |-> ClientAway]

InitDraft == DraftInit /\ TallyIdle /\ LocalIdle /\ PageIdle

DraftNext ==
    \/ DraftAdvance
    \/ DraftStart
    \/ DraftCloseRound
    \/ DraftResultEmail
    \/ DraftQueryGroups
    \/ DraftCheckGroup
    \/ DraftInsertRound
    \/ DraftMarkUsed
    \/ DraftRoundEmail
    \/ DraftRespond

SpecDraft == InitDraft /\ [][DraftNext]_vars

\* ------------------------------------------------------- claims on the tally
TallyRan == tOut.impl = "server"

TargetCount(targets, t) == Cardinality({i \in DOMAIN targets : targets[i] = t})

\* the targets holding the maximum count of non-abstaining votes
TopTargets(targets) ==
    {t \in UserIds : /\ TargetCount(targets, t) > 0
                     /\ \A t2 \in UserIds : TargetCount(targets, t2) <= TargetCount(targets, t)}

\* C6: the tally names a winner if and only if exactly one target holds the
\* maximum count of non-abstaining votes, and the winner is that target; on a
\* tie at the maximum or without non-abstaining votes the winner is null.
C6_WinnerIffUniqueMax ==
    TallyRan =>
        LET top == TopTargets(ToTargets(tVotes))
        IN  /\ (tOut.result.winner # NULL) <=> (Cardinality(top) = 1)
            /\ tOut.result.winner # NULL => tOut.result.winner \in top

\* a tie at the maximum was tallied, and a unique maximum was tallied
C6_Witness ==
    /\ TallyRan
    /\ Cardinality(TopTargets(ToTargets(tVotes))) = 2
    /\ tOut.result.winner = NULL
    /\ tOut.result.maxVotes = 1

InsertAt(s, i, x) == SubSeq(s, 1, i) \o <<x>> \o SubSeq(s, i + 1, Len(s))

\* C8: abstentions never count: a tally of abstentions only has no winner,
\* maxVotes 0 and no vote counts, and an abstention added anywhere to a list
\* of votes changes neither winner, maxVotes nor the vote counts; in the edge
\* function's tally and in the local closeRound's tally alike.
C8_AbstainNeverCounts ==
    /\ TallyRan =>
          /\ (\A i \in DOMAIN tVotes : tVotes[i] = ABSTAIN) =>
                /\ tOut.result.winner = NULL
                /\ tOut.result.maxVotes = 0
                /\ tOut.result.voteCounts = <<>>
          /\ \A i \in 0..Len(tVotes) :
                Tally(ToTargets(InsertAt(tVotes, i, ABSTAIN))) = tOut.result
    /\ tOut.impl = "local" =>
          /\ (\A i \in DOMAIN tVotes : tVotes[i] = ABSTAIN) =>
                /\ tOut.result.winners = <<>>
                /\ tOut.result.maxVotes = 0
                /\ tOut.result.voteCounts = <<>>
          /\ \A i \in 0..Len(tVotes) :
                LocalTally(InsertAt(tVotes, i, ABSTAIN)) = tOut.result

\* two abstentions were tallied by the edge function's tally
C8_Witness ==
    /\ TallyRan
    /\ tVotes = <<ABSTAIN, ABSTAIN>>
    /\ tOut.result.maxVotes = 0

Perms(n) == {f \in [1..n -> 1..n] : \A i, j \in 1..n : f[i] = f[j] => i = j}

\* C9: the tally depends only on the votes, not on their order: every
\* reordering of the same votes gives the same winner, the same maxVotes and
\* the same count for every target.
C9_OrderIndependent ==
    TallyRan =>
        \A p \in Perms(Len(tVotes)) :
            LET other == Tally(ToTargets([i \in DOMAIN tVotes |-> tVotes[p[i]]]))
            IN  /\ other.winner = tOut.result.winner
                /\ other.maxVotes = tOut.result.maxVotes
                /\ AsMap(other.voteCounts) = AsMap(tOut.result.voteCounts)

\* votes for two different targets, whose order can differ, were tallied
C9_Witness ==
    /\ TallyRan
    /\ Len(tVotes) = 3
    /\ tVotes[1] \in UserIds /\ tVotes[2] \in UserIds /\ tVotes[1] # tVotes[2]
    /\ tOut.result.winner # NULL

\* ------------------------------------------------------- claims on the store
OpenRounds(g) == {r \in RoundsOf(g) : ResultRows(r) = {}}

\* C1: in every reachable state every group has at most one round without a
\* round_results row, whatever the interleaving of invocations of the edge
\* function and of the owner's "start new round".
C1_AtMostOneOpenRound ==
    \A g \in GroupIds : Cardinality(OpenRounds(g)) <= 1

\* C2: in every reachable state every round has at most one round_results
\* row, also when two closers passed the check for an existing result before
\* either inserted.
C2_AtMostOneResultPerRound ==
    \A r \in DOMAIN rounds : Cardinality(ResultRows(r)) <= 1

\* C3: closeRound of the supaApi called on a round that already has a result
\* is a no-op: the call leaves round_results as it is and goes on to no
\* points update.
C3_SecondCloseIsNoOp ==
    [][\A u \in Profiles :
          (/\ client[u].pc = "insert_result"
           /\ ResultRows(client[u].round) # {}
           /\ client'[u] # client[u])
          => (round_results' = round_results /\ client'[u].pc = "idle")]_vars

Closing == {"insert_result", "select_points", "write_points"}

NoCloseInProgress ==
    /\ \A t \in TickIds : tick[t].pc \notin Closing
    /\ \A u \in Profiles : client[u].pc \notin Closing

RECURSIVE SumPoints(_)
SumPoints(I) ==
    IF I = {} THEN 0
    ELSE LET i == CHOOSE j \in I : TRUE IN points[i].points + SumPoints(I \ {i})

RoundsWonBy(u, g) ==
    {r \in RoundsOf(g) : \E i \in ResultRows(r) : round_results[i].winner = u}

\* C4: whenever no close is in progress, the points of every user in every
\* group equal the number of closed rounds of the group whose result names
\* the user as winner.
C4_PointsEqualWins ==
    NoCloseInProgress =>
        \A g \in GroupIds, u \in UserIds :
            SumPoints(PointRows(u, g)) = Cardinality(RoundsWonBy(u, g))

\* C5: a vote submission leaves exactly one row of the voter for the round,
\* holding the submitted choice, and returns no error: a resubmission
\* replaces the earlier choice; through the "Submit vote" button of
\* app/page.tsx and through submitVote of the supaApi alike.
C5_ResubmissionReplaces ==
    [][\A u \in UserIds, selected \in Selections :
          /\ PageSubmit(u, selected) =>
                /\ ~pageError'
                /\ Cardinality({i \in DOMAIN pageVotes' : pageVotes'[i].voter_id = u}) = 1
                /\ \A i \in DOMAIN pageVotes' :
                      pageVotes'[i].voter_id = u => pageVotes'[i] = PagePayload(u, selected)
          /\ SubmitVote(u, 1, ToTarget(selected)) =>
                {v \in votes' : v.round_id = 1 /\ v.voter = u}
                    = {[round_id |-> 1, voter |-> u, target |-> ToTarget(selected)]}]_vars

\* C7: a close of a round whose non-abstaining votes tie at the maximum
\* leaves the points of every user unchanged (here: closeRound of the
\* localStorage version, which closes in the step that casts the last vote
\* or in the render after the round expired).
C7_TieLeavesPointsUnchanged ==
    [][\A i \in DOMAIN lGroup.rounds :
          (/\ ~lGroup.rounds[i].closed
           /\ lGroup'.rounds[i].closed
           /\ Cardinality(TopTargets(ToTargets(VoteValues(lGroup'.rounds[i].votes)))) >= 2)
          => lGroup'.leaderboard = lGroup.leaderboard]_vars

Voters(r) == {v.voter : v \in VotesOf(r)}

\* C10: a round_results row is inserted for a round only when, in the store
\* at that moment, the round has expired or at least as many distinct users
\* voted in it as its group has members.
C10_ClosedOnlyWhenDue ==
    [][Len(round_results') > Len(round_results) =>
          LET r == round_results'[Len(round_results')].round_id
          IN  \/ now >= rounds[r].expires_at
              \/ Cardinality(Voters(r)) >= Cardinality(MembersOf(rounds[r].group_id))]_vars

\* ------------------------------------------------ claims on the scheduler
\* every member of the round's group has voted in r and every vote names x
UnanimousFor(r, x) ==
    /\ Voters(r) = MembersOf(rounds[r].group_id)
    /\ Voters(r) # {}
    /\ \A v \in VotesOf(r) : v.target = x

\* C11: when every member has voted in a round and all votes name the same
\* target, an invocation of the edge function that has gone through its
\* STEP 2 before the round expires leaves the round closed with that target
\* as winner and the target's points in the group raised by exactly 1 (from
\* no points to 1), once no close is in progress.
C11_UnanimousClosedEarly ==
    \A t \in TickIds, r \in DOMAIN rounds, x \in UserIds :
        (/\ tick[t].pc = "loop" /\ tick[t].step = 3
         /\ NoCloseInProgress
         /\ UnanimousFor(r, x)
         /\ now < rounds[r].expires_at)
        => /\ ResultRows(r) # {}
           /\ \A i \in ResultRows(r) : round_results[i].winner = x
           /\ SumPoints(PointRows(x, rounds[r].group_id)) = 1

C13_OpenedOnlyAfterCooldown ==
    [][Len(rounds') > Len(rounds) =>
        LET g == rounds'[Len(rounds')].group_id
        IN  /\ OpenRounds(g) = {}
            /\ \A r \in RoundsOf(g) : \A i \in ResultRows(r) :
                  now >= round_results[i].closed_at + COOLDOWN
      ]_vars

\* the group has no round without a result and its cooldown has elapsed
\* (or it never had a round)
DueForRound(g) ==
    /\ OpenRounds(g) = {}
    /\ \A r \in RoundsOf(g) : \A i \in ResultRows(r) :
          now >= round_results[i].closed_at + COOLDOWN

\* the statements of the group's edition that are not deleted
EditionStatements(g) ==
    {x.id : x \in {y \in statements : y.edition_id = EditionOf(g) /\ ~y.deleted}}

\* C14: when an invocation of the edge function handles in STEP 3 a group
\* that has no open round, whose cooldown has elapsed (or that never had a
\* round) and whose edition has a statement that is not deleted, it goes on
\* to insert a new round for that group.
C14_DueGroupGetsRound ==
    [][\A t \in TickIds :
        (/\ tick[t].pc = "loop" /\ tick[t].step = 3 /\ tick[t].queue # <<>>
         /\ tick'[t] # tick[t]
         /\ DueForRound(Head(tick[t].queue))
         /\ EditionStatements(Head(tick[t].queue)) # {})
        => /\ tick'[t].pc = "insert_round"
           /\ tick'[t].group = Head(tick[t].queue)
      ]_vars

C16_NoRepeatBeforeExhausted ==
    \A g \in GroupIds :
        Cardinality(RoundsOf(g)) <= Cardinality(EditionStatements(g)) =>
            \A r1, r2 \in RoundsOf(g) :
                r1 # r2 => rounds[r1].statement_id # rounds[r2].statement_id

\* C17: when an invocation of the edge function picks for a group that is
\* due for a round and every statement of the group's non-empty edition is
\* marked used, the used marks of that edition are cleared (but for the
\* statement picked) and the invocation goes on to insert a round with a
\* statement of the edition.
C17_ExhaustedPoolIsReset ==
    [][\A t \in TickIds :
        LET g == Head(tick[t].queue)
        IN  (/\ tick[t].pc = "loop" /\ tick[t].step = 3 /\ tick[t].queue # <<>>
             /\ tick'[t] # tick[t]
             /\ DueForRound(g)
             /\ EditionStatements(g) # {}
             /\ EditionStatements(g) \subseteq UsedIds(g))
            => /\ tick'[t].pc = "insert_round"
               /\ tick'[t].statement \in EditionStatements(g)
               /\ (UsedIds(g)' \cap EditionStatements(g)) \subseteq {tick'[t].statement}
      ]_vars

C19_RoundStatementIsMarked ==
    \A r \in DOMAIN rounds :
        [group_id |-> rounds[r].group_id, statement_id |-> rounds[r].statement_id]
            \in group_used_statements

\* C20: once a round has a result, no step adds or changes a vote of it.
C20_NoVoteAfterClose ==
    [][\A r \in DOMAIN rounds :
        ResultRows(r) # {} => VotesOf(r)' = VotesOf(r)
      ]_vars

\* ------------------------------------------- claims on closed rounds
\* C21: no step changes or removes a stored result, and a round that has a
\* result is never returned by getActiveRound as the group's active round.
C21_ClosedStaysClosed ==
    [][/\ Len(round_results') >= Len(round_results)
       /\ \A i \in DOMAIN round_results : round_results'[i] = round_results[i]
       /\ \A g \in GroupIds : \A r \in GetActiveRound(g)' :
             r = 0 \/ ResultRows(r)' = {}
      ]_vars

\* ------------------------------------------- claims on group management
\* C22: every vote row that a step stores has a target that is null or a
\* member of the round's group at that moment; a submission naming somebody
\* else stores nothing.
C22_TargetIsMember ==
    [][\A v \in votes' \ votes :
          \/ v.target = NULL
          \/ v.target \in MembersOf(rounds[v.round_id].group_id)
      ]_vars

\* ------------------------------ the admin statements endpoint (SpecAdmin)
MaxAdminRows == 2

\* req.headers.get("x-admin-token") of a request without the header
ABSENT == "null"

\* the values of the header and of process.env.ADMIN_TOKEN
AdminHeaders == {ABSENT, "", "secret", "wrong"}
AdminTokens == {UNSET, "", "secret"}
AdminTexts == {"a", "b"}

adminFrame == <<tallyVars, localVars, storeVars, procVars, pageVotes, pageError, draftVars>>

\* a comparison with != : null and undefined compare equal
ForbiddenLoosely(header, token) ==
    /\ header # token
    /\ ~(header = ABSENT /\ token = UNSET)

\* req.headers.get("x-admin-token") !== process.env.ADMIN_TOKEN
Forbidden(header, token) == header # token

AdminForbidden(method, header) ==
    [status |-> 403, method |-> method, header |-> header, data |-> <<>>]

\* GET: the statements, or [] when the select returned no data
AdminGet(header) ==
    /\ IF Forbidden(header, adminToken)
       THEN adminOut' = AdminForbidden("GET", header)
       ELSE \E out \in StoreOutcomes :
               adminOut' = [status |-> 200, method |-> "GET", header |-> header,
                            data |-> IF out = "ok" THEN adminRows ELSE <<>>]
    /\ UNCHANGED <<adminFrame, adminToken, adminRows>>

\* POST: insert { text, active: true }; status 400 when the insert fails
AdminPost(header, text) ==
    /\ IF Forbidden(header, adminToken)
       THEN /\ adminOut' = AdminForbidden("POST", header)
            /\ adminRows' = adminRows
       ELSE \E out \in StoreOutcomes :
               \/ /\ out = "ok"
                  /\ Len(adminRows) < MaxAdminRows
                  /\ adminRows' = Append(adminRows, [text |-> text, active |-> TRUE])
                  /\ adminOut' = [status |-> 200, method |-> "POST", header |-> header,
                                  data |-> <<>>]
               \/ /\ out = "error"
                  /\ adminRows' = adminRows
                  /\ adminOut' = [status |-> 400, method |-> "POST", header |-> header,
                                  data |-> <<>>]
    /\ UNCHANGED <<adminFrame, adminToken>>

\* the deployment sets ADMIN_TOKEN or leaves it unset; no request yet
AdminInit ==
    /\ adminToken \in AdminTokens
    /\ adminRows = <<>>
    /\ adminOut = NoResponse

InitAdmin == AdminInit /\ TallyIdle /\ LocalIdle /\ StoreIdle /\ BallotIdle

AdminNext ==
    \/ \E header \in AdminHeaders : AdminGet(header)
    \/ \E header \in AdminHeaders, text \in AdminTexts : AdminPost(header, text)

SpecAdmin == InitAdmin /\ [][AdminNext]_vars

\* ------------------------------------- claims on failures and reports
\* C23: whatever the store and the email function return or throw while one
\* round or one group is handled, an invocation that responds responds with
\* the success report (which it builds after the last group).
C23_FailureIsConfined ==
    draft.response # NoResponse => draft.response.status = 200

\* C24: the step that dispatches the email of a closed or an opened round,
\* whatever the dispatch returns or throws, leaves the stored results, points
\* and rounds as they are and leaves the invocation running, so that it goes
\* on with the remaining rounds and groups.
C24_EmailFailureIsHarmless ==
    [][draft.pc \in {"result_email", "round_email"} =>
          /\ round_results' = round_results
          /\ points' = points
          /\ rounds' = rounds
          /\ draft'.pc \in {"close", "open"}
          /\ draft'.queue = Tail(draft.queue)
      ]_vars

\* C25: no step lowers the points total of a user in a group.
C25_PointsNeverDecrease ==
    [][\A g \in GroupIds, u \in UserIds :
          SumPoints(PointRows(u, g))' >= SumPoints(PointRows(u, g))
      ]_vars

\* C26: no step changes the edition of a group: not a rename, not a member
\* joining or leaving, not a vote, not the closing or opening of a round.
C26_EditionNeverChanges ==
    [][\A x \in groups : \E y \in groups' : y.id = x.id /\ y.edition_id = x.edition_id]_vars

\* the group was renamed, u3 joined, a round was closed and a second one opened
C26_Witness ==
    /\ \E x \in groups : x.name = "n2"
    /\ "u3" \in MembersOf("g1")
    /\ round_results # <<>>
    /\ Len(rounds) = 2

\* C27: a GET or POST whose x-admin-token header differs from ADMIN_TOKEN,
\* or has no such header, is answered with status 403, returns no statement
\* and leaves the statements table as it is.
C27_AdminTokenRequired ==
    [][(adminOut' # NoResponse /\ adminOut'.header # adminToken) =>
          /\ adminOut'.status = 403
          /\ adminOut'.data = <<>>
          /\ adminRows' = adminRows
      ]_vars

\* a POST without the header was refused while statements are stored
C27_Witness ==
    /\ adminRows # <<>>
    /\ adminOut # NoResponse
    /\ adminOut.method = "POST"
    /\ adminOut.header = ABSENT
    /\ adminOut.status = 403

\* C28: the roundsClosed and roundsCreated of a success report are the
\* numbers of round_results rows and of rounds that the invocation stored.
C28_ReportCountsPersisted ==
    (draft.response # NoResponse /\ draft.response.status = 200) =>
        /\ draft.response.roundsClosed = Len(round_results) - draft.resultsBefore
        /\ draft.response.roundsCreated = Len(rounds) - draft.roundsBefore

\* ------------------------------------------ claims on the round's expiry
\* C29: at every time, each round without a result is either selected by
\* the STEP 1 query of the expired rounds or counted as an active round of
\* its group by STEP 3.
C29_UnclosedIsExpiredOrActive ==
    \A r \in DOMAIN rounds :
        ResultRows(r) = {} => (r \in ExpiredRounds \/ r \in ActiveRounds)

\* C30: when a round_results row is inserted for a round before the round's
\* expires_at, every member the round's group has at that moment has a vote
\* row in the round.
C30_EarlyCloseHasAllMembers ==
    [][Len(round_results') > Len(round_results) =>
          LET r == round_results'[Len(round_results')].round_id
          IN  now < rounds[r].expires_at =>
                  MembersOf(rounds[r].group_id) \subseteq Voters(r)
      ]_vars

====
